---------------------------- MODULE Spec2Model ----------------------------
(***************************************************************************)
(* Model of the ignore-rule engine of src/main.py: the rule-file loader    *)
(* (load_gitignore_patterns), the index builder                            *)
(* (collect_gitignore_patterns) and the resolver (is_file_ignored).        *)
(*                                                                         *)
(* Python strings are sequences of one-character strings, so that          *)
(* startswith, split, dirname, relpath and fnmatch are computed character  *)
(* by character as the code computes them.                                 *)
(***************************************************************************)
EXTENDS Integers, Sequences, FiniteSets, TLC

VARIABLES
    ruleFile,          \* the disk: directory -> raw lines of its .gitignore, or NoFile
    start_paths_abs,   \* argument of collect_gitignore_patterns
    patterns_by_dir,   \* the index under construction / built
    gitignores_found,  \* rule-file paths already loaded
    dirs_to_scan,      \* search directories still to walk
    pc,                \* position in collect_gitignore_patterns / main
    query              \* last is_file_ignored call: path, verdict, consulted dirs

vars == <<ruleFile, start_paths_abs, patterns_by_dir, gitignores_found,
          dirs_to_scan, pc, query>>

---------------------------------------------------------------------------
(* Bounds *)

\* longest generic rule file drawn for the project root
MaxRules == 3

\* most start paths handed to collect_gitignore_patterns
MaxStartPaths == 2

---------------------------------------------------------------------------
(* String primitives (Python str / os.path on POSIX) *)

Sep == "/"

\* str.startswith
StartsWith(s, p) == Len(p) <= Len(s) /\ SubSeq(s, 1, Len(p)) = p

\* str.endswith for a one-character suffix
EndsWithChar(s, c) == Len(s) > 0 /\ s[Len(s)] = c

\* c in s
Contains(s, c) == \E i \in 1..Len(s) : s[i] = c

\* str.rfind(c) + 1
RFindPlus1(s, c) ==
    IF Contains(s, c)
    THEN CHOOSE i \in 1..Len(s) : s[i] = c /\ \A j \in (i+1)..Len(s) : s[j] # c
    ELSE 0

\* str.find(c) + 1, 0 when absent
FindPlus1(s, c) ==
    IF Contains(s, c)
    THEN CHOOSE i \in 1..Len(s) : s[i] = c /\ \A j \in 1..(i-1) : s[j] # c
    ELSE 0

RECURSIVE RStrip(_, _)
\* str.rstrip(chars)
RStrip(s, chars) ==
    IF Len(s) > 0 /\ s[Len(s)] \in chars THEN RStrip(SubSeq(s, 1, Len(s)-1), chars) ELSE s

RECURSIVE LStrip(_, _)
\* str.lstrip(chars)
LStrip(s, chars) ==
    IF Len(s) > 0 /\ s[1] \in chars THEN LStrip(Tail(s), chars) ELSE s

Whitespace == {" ", "\t", "\n", "\r"}

\* str.strip()
Strip(s) == LStrip(RStrip(s, Whitespace), Whitespace)

RECURSIVE Split(_, _)
\* str.split(c)
Split(s, c) ==
    IF ~Contains(s, c) THEN <<s>>
    ELSE LET i == FindPlus1(s, c)
         IN  <<SubSeq(s, 1, i-1)>> \o Split(SubSeq(s, i+1, Len(s)), c)

RECURSIVE Join(_, _)
\* c.join(parts)
Join(parts, c) ==
    IF Len(parts) = 0 THEN <<>>
    ELSE IF Len(parts) = 1 THEN parts[1]
    ELSE parts[1] \o <<c>> \o Join(Tail(parts), c)

\* posixpath.basename
Basename(p) == SubSeq(p, RFindPlus1(p, Sep) + 1, Len(p))

\* posixpath.dirname
Dirname(p) ==
    LET head == SubSeq(p, 1, RFindPlus1(p, Sep))
    IN  IF head # <<>> /\ \E i \in 1..Len(head) : head[i] # Sep
        THEN RStrip(head, {Sep})
        ELSE head

\* posixpath.join(a, b) for a relative b
PathJoin(a, b) == IF a = <<>> \/ EndsWithChar(a, Sep) THEN a \o b ELSE a \o <<Sep>> \o b

\* the non-empty components of an absolute path
Components(p) == SelectSeq(Split(p, Sep), LAMBDA x : x # <<>>)

RECURSIVE CommonPrefixLen(_, _)
CommonPrefixLen(a, b) ==
    IF a # <<>> /\ b # <<>> /\ Head(a) = Head(b)
    THEN 1 + CommonPrefixLen(Tail(a), Tail(b))
    ELSE 0

\* posixpath.relpath(path, start), both absolute and normalised
Relpath(path, start) ==
    LET start_list == Components(start)
        path_list  == Components(path)
        i          == CommonPrefixLen(start_list, path_list)
        rel_list   == [k \in 1..(Len(start_list) - i) |-> <<".", ".">>]
                      \o SubSeq(path_list, i+1, Len(path_list))
    IN  IF rel_list = <<>> THEN <<".">> ELSE Join(rel_list, Sep)

RECURSIVE FnMatch(_, _)
\* fnmatch.fnmatch(name, pat) on POSIX: '*' any run of characters, '?' any one
\* character, '[seq]' / '[!seq]' a character class (an unclosed '[' is literal);
\* anchored at both ends.  None of the three treats '/' specially.
FnMatch(name, pat) ==
    IF pat = <<>> THEN name = <<>>
    ELSE LET c    == Head(pat)
             rest == Tail(pat)
         IN  IF c = "*" THEN
                 FnMatch(name, rest) \/ (name # <<>> /\ FnMatch(Tail(name), pat))
             ELSE IF c = "?" THEN
                 name # <<>> /\ FnMatch(Tail(name), rest)
             ELSE IF c = "[" THEN
                 LET j0 == IF rest # <<>> /\ rest[1] = "!" THEN 2 ELSE 1
                     j1 == IF j0 <= Len(rest) /\ rest[j0] = "]" THEN j0 + 1 ELSE j0
                     closes == {j \in j1..Len(rest) : rest[j] = "]"}
                 IN  IF closes = {} THEN
                         name # <<>> /\ Head(name) = "[" /\ FnMatch(Tail(name), rest)
                     ELSE
                         LET j     == CHOOSE j \in closes : \A k \in closes : j <= k
                             stuff == SubSeq(rest, 1, j-1)
                             after == SubSeq(rest, j+1, Len(rest))
                             neg   == stuff # <<>> /\ stuff[1] = "!"
                             members == {stuff[k] : k \in (IF neg THEN 2 ELSE 1)..Len(stuff)}
                         IN  /\ name # <<>>
                             /\ stuff # <<>>
                             /\ IF stuff = <<"!">> THEN TRUE
                                ELSE (Head(name) \in members) # neg
                             /\ FnMatch(Tail(name), after)
             ELSE
                 name # <<>> /\ Head(name) = c /\ FnMatch(Tail(name), rest)

---------------------------------------------------------------------------
(* The disk the program runs against *)

project_root_abs == <<"/", "r">>

FsRoot  == <<"/">>
SubDir  == <<"/", "r", "/", "s", "u", "b">>
GitDir  == <<"/", "r", "/", ".", "g", "i", "t">>

\* every directory of the tree (os.path.isdir)
Dirs ==
    { FsRoot, project_root_abs, SubDir, GitDir,
      <<"/", "r", "/", "f", "o", "o">>, <<"/", "r", "/", "b", "a", "r", "f", "o", "o">>, <<"/", "r", "/", "b", "u", "i", "l", "d">>, <<"/", "r", "/", "s", "r", "c">>, <<"/", "r", "/", "s", "r", "c", "/", "s", "u", "b">> }

\* every regular file of the tree other than rule files (os.path.isfile)
Files ==
    { <<"/", "r", "/", "k", "e", "e", "p", ".", "l", "o", "g">>, <<"/", "r", "/", "o", "t", "h", "e", "r", ".", "l", "o", "g">>, <<"/", "r", "/", "a", "p", "p", ".", "l", "o", "g">>, <<"/", "r", "/", "n", "o", "t", "e", "s", ".", "t", "m", "p">>,
      <<"/", "r", "/", "k", "e", "e", "p", ".", "t", "m", "p">>, <<"/", "r", "/", "r", "e", "a", "d", "m", "e", ".", "m", "d">>, <<"/", "r", "/", "y", "a", "r", "n", ".", "l", "o", "c", "k">>,
      <<"/", "r", "/", "s", "u", "b", "/", "a", "p", "p", ".", "l", "o", "g">>, <<"/", "r", "/", "s", "u", "b", "/", "k", "e", "e", "p", ".", "l", "o", "g">>, <<"/", "r", "/", "s", "u", "b", "/", "i", "m", "p", "o", "r", "t", "a", "n", "t", ".", "t", "x", "t">>,
      <<"/", "r", "/", "s", "u", "b", "/", ".", "g", "i", "t">>,
      <<"/", "r", "/", "f", "o", "o", "/", "b", "a", "r", ".", "t", "x", "t">>, <<"/", "r", "/", "b", "a", "r", "f", "o", "o", "/", "x">>, <<"/", "r", "/", "b", "u", "i", "l", "d", "/", "o", "u", "t", ".", "o">>,
      <<"/", "r", "/", "s", "r", "c", "/", "a", ".", "p", "y">>, <<"/", "r", "/", "s", "r", "c", "/", "s", "u", "b", "/", "a", ".", "p", "y">>, <<"/", "r", "/", ".", "g", "i", "t", "/", "c", "o", "n", "f", "i", "g">> }

\* the directories that may hold a rule file
RuleDirs == { FsRoot, project_root_abs, SubDir }

GitignoreName == <<".", "g", "i", "t", "i", "g", "n", "o", "r", "e">>

isdir(p) == p \in Dirs

\* os.path.isfile, the rule files included
isfile(p) ==
    \/ p \in Files
    \/ \E d \in RuleDirs : p = PathJoin(d, GitignoreName) /\ ruleFile[d].exists

\* the directories os.walk(top) yields: top and everything beneath it
OsWalk(top) ==
    { d \in Dirs : LET t == Components(top)
                       c == Components(d)
                   IN  Len(t) <= Len(c) /\ SubSeq(c, 1, Len(t)) = t }

---------------------------------------------------------------------------
(* Inputs *)

\* lines the generic rule files of the project root are made of
GenLines == { <<"*", ".", "l", "o", "g">>, <<"!", "k", "e", "e", "p", ".", "l", "o", "g">>, <<"k", "e", "e", "p", ".", "l", "o", "g">> }

RECURSIVE SeqsUpTo(_, _)
\* all sequences over S of length at most n
SeqsUpTo(S, n) ==
    IF n = 0 THEN { <<>> }
    ELSE LET shorter == SeqsUpTo(S, n - 1)
         IN  shorter \cup { Append(s, x) : s \in shorter, x \in S }

E2ELines == << <<"#", " ", "b", "u", "i", "l", "d", " ", "o", "u", "t", "p", "u", "t">>, <<>>, <<"b", "u", "i", "l", "d", "/">>, <<" ", " ", "*", ".", "t", "m", "p">>, <<"!", "k", "e", "e", "p", ".", "t", "m", "p">> >>

\* rule files of the project root with other kinds of pattern
RootScenarios ==
    { E2ELines,
      << <<"f", "o", "o", "/">> >>,
      << <<"s", "r", "c", "/", "*", ".", "p", "y">> >>,
      << <<"!", "i", "m", "p", "o", "r", "t", "a", "n", "t", ".", "t", "x", "t">> >>,
      << <<"!", "y", "a", "r", "n", ".", "l", "o", "c", "k">>, <<"!", ".", "g", "i", "t", "/">> >> }

RootContents == SeqsUpTo(GenLines, MaxRules) \cup RootScenarios

SubContents ==
    { << <<"i", "m", "p", "o", "r", "t", "a", "n", "t", ".", "t", "x", "t">> >>, << <<"!", "k", "e", "e", "p", ".", "l", "o", "g">> >>, << <<"*", ".", "l", "o", "g">> >> }

OuterContents == { << <<"*", ".", "m", "d">> >> }

Absent == [exists |-> FALSE, lines |-> <<>>]

Present(lines) == [exists |-> TRUE, lines |-> lines]

ContentsOf(d) ==
    IF d = project_root_abs THEN RootContents
    ELSE IF d = SubDir THEN SubContents
    ELSE OuterContents

\* what the .gitignore of directory d may be
RuleFileChoices(d) == { Absent } \cup { Present(l) : l \in ContentsOf(d) }

\* paths a user may pass on the command line (already made absolute): the
\* project root, a directory above it, a file beneath it, a path that does not exist
StartPool ==
    { project_root_abs, FsRoot,
      <<"/", "r", "/", "s", "u", "b", "/", "i", "m", "p", "o", "r", "t", "a", "n", "t", ".", "t", "x", "t">>,
      <<"/", "r", "/", "m", "i", "s", "s", "i", "n", "g">> }

StartChoices ==
    { S \in SUBSET StartPool : Cardinality(S) >= 1 /\ Cardinality(S) <= MaxStartPaths }

\* paths handed to is_file_ignored
Candidates == Files \cup { project_root_abs, <<"/", "r", "/", "f", "o", "o">> }

---------------------------------------------------------------------------
(* load_gitignore_patterns *)

\* a line is kept when it is non-empty after strip() and does not start with '#'
KeepLine(line) == line # <<>> /\ line[1] # "#"

RECURSIVE StripAll(_)
StripAll(lines) ==
    IF lines = <<>> THEN <<>> ELSE <<Strip(Head(lines))>> \o StripAll(Tail(lines))

load_gitignore_patterns(d) ==
    IF ruleFile[d].exists
    THEN SelectSeq(StripAll(ruleFile[d].lines), KeepLine)
    ELSE <<>>

---------------------------------------------------------------------------
(* is_file_ignored *)

ALWAYS_IGNORE_FILENAMES ==
    { <<"p", "a", "c", "k", "a", "g", "e", "-", "l", "o", "c", "k", ".", "j", "s", "o", "n">>, <<"y", "a", "r", "n", ".", "l", "o", "c", "k">>, <<"P", "i", "p", "f", "i", "l", "e", ".", "l", "o", "c", "k">>, <<"p", "o", "e", "t", "r", "y", ".", "l", "o", "c", "k">>,
      <<".", "D", "S", "_", "S", "t", "o", "r", "e">> }

DotGit == <<".", "g", "i", "t">>

\* the basename short-circuit
AlwaysIgnoredName(filepath_abs) == Basename(filepath_abs) \in ALWAYS_IGNORE_FILENAMES

\* the '.git' short-circuit: the first '.git' component is a directory and the
\* path lies beneath it
InsideGitDir(filepath_abs) ==
    LET path_parts == Split(filepath_abs, Sep)
    IN  /\ \E i \in 1..Len(path_parts) : path_parts[i] = DotGit
        /\ LET git_index    == CHOOSE i \in 1..Len(path_parts) :
                                   /\ path_parts[i] = DotGit
                                   /\ \A j \in 1..(i-1) : path_parts[j] # DotGit
               git_dir_path == Join(SubSeq(path_parts, 1, git_index), Sep)
           IN  isdir(git_dir_path) /\ StartsWith(filepath_abs, git_dir_path \o <<Sep>>)

\* mutant: the '.git' short-circuit is dropped
Denylisted_NameOnly(filepath_abs) == AlwaysIgnoredName(filepath_abs)

Denylisted(filepath_abs) == AlwaysIgnoredName(filepath_abs) \/ InsideGitDir(filepath_abs)

RECURSIVE RelevantFrom(_, _)
\* the while loop collecting relevant_gitignore_dirs, deepest first
RelevantFrom(temp_dir, index) ==
    LET here == IF temp_dir \in DOMAIN index THEN <<temp_dir>> ELSE <<>>
    IN  IF temp_dir = project_root_abs \/ temp_dir = <<>> \/ temp_dir = Dirname(temp_dir)
        THEN here
        ELSE here \o RelevantFrom(Dirname(temp_dir), index)

relevant_gitignore_dirs(filepath_abs, index) == RelevantFrom(Dirname(filepath_abs), index)

is_negation(line) == line # <<>> /\ line[1] = "!"

\* the pattern text with the leading '!' removed
PatternOf(line) == IF is_negation(line) THEN Tail(line) ELSE line

\* mutant: the pattern may occur anywhere in (path + '/')
MatchDirectory_Anywhere(rel, pattern) ==
    LET s == rel \o <<Sep>>
    IN  \E i \in 1..Len(s) : StartsWith(SubSeq(s, i, Len(s)), pattern)

\* directory pattern: (path + '/') starts with the pattern
MatchDirectory(rel, pattern) == StartsWith(rel \o <<Sep>>, pattern)

\* mutant: the basename test is dropped
MatchName_WholePathOnly(rel, pattern) ==
    \/ FnMatch(rel, pattern \o <<"/", "*">>)
    \/ FnMatch(rel, pattern)

\* plain-name pattern: the basename, or the path itself, or the path under it
MatchName(rel, pattern) ==
    \/ FnMatch(Basename(rel), pattern)
    \/ FnMatch(rel, pattern \o <<"/", "*">>)
    \/ FnMatch(rel, pattern)

\* path pattern relative to the rule file's directory
MatchPath(rel, pattern) == FnMatch(rel, pattern)

\* `matched` for one pattern (negation mark already removed)
Matched(rel, pattern) ==
    IF EndsWithChar(pattern, Sep) THEN MatchDirectory(rel, pattern)
    ELSE IF ~Contains(pattern, Sep) THEN MatchName(rel, pattern)
    ELSE MatchPath(rel, pattern)

\* mutant: the verdict starts as ignored
InitialFlags_Ignored == [ignored |-> TRUE, negated |-> FALSE]

\* ignored = False; negated = False
InitialFlags == [ignored |-> FALSE, negated |-> FALSE]

\* mutant: every matching rule overwrites the verdict (last match wins)
ApplyMatch_LastMatchWins(flags, neg) == [ignored |-> ~neg, negated |-> FALSE]

\* mutant: a matching negation leaves the flags as they are
ApplyMatch_NegationDropped(flags, neg) ==
    IF neg THEN flags
    ELSE IF ~flags.negated THEN [flags EXCEPT !.ignored = TRUE]
    ELSE flags

\* the `if matched:` block
ApplyMatch(flags, neg) ==
    IF neg THEN [ignored |-> FALSE, negated |-> TRUE]
    ELSE IF ~flags.negated THEN [flags EXCEPT !.ignored = TRUE]
    ELSE flags

RECURSIVE WalkPatterns(_, _, _)
\* for pattern in patterns
WalkPatterns(patterns, rel, flags) ==
    IF patterns = <<>> THEN flags
    ELSE LET line == Head(patterns)
             next == IF Matched(rel, PatternOf(line))
                     THEN ApplyMatch(flags, is_negation(line))
                     ELSE flags
         IN  WalkPatterns(Tail(patterns), rel, next)

RECURSIVE WalkDirs(_, _, _, _)
\* for gitignore_dir_abs in relevant_gitignore_dirs
WalkDirs(dirs, filepath_abs, index, flags) ==
    IF dirs = <<>> THEN flags
    ELSE LET gitignore_dir_abs == Head(dirs)
             rel == Relpath(filepath_abs, gitignore_dir_abs)
         IN  WalkDirs(Tail(dirs), filepath_abs, index,
                      WalkPatterns(index[gitignore_dir_abs], rel, flags))

\* return ignored if not negated else False
FinalVerdict(flags) == IF ~flags.negated THEN flags.ignored ELSE FALSE

is_file_ignored(filepath_abs, index) ==
    IF Denylisted(filepath_abs) THEN TRUE
    ELSE FinalVerdict(WalkDirs(relevant_gitignore_dirs(filepath_abs, index),
                               filepath_abs, index, InitialFlags))

\* the rule sets a call consults: none when the denylist answers
Consulted(filepath_abs, index) ==
    IF Denylisted(filepath_abs) THEN <<>>
    ELSE relevant_gitignore_dirs(filepath_abs, index)

---------------------------------------------------------------------------
(* State machine *)

EmptyIndex == [d \in {} |-> <<>>]

NoQuery == [called |-> FALSE, path |-> <<>>, ignored |-> FALSE, consulted |-> <<>>]

Init ==
    /\ \E outer \in RuleFileChoices(FsRoot),
          root  \in RuleFileChoices(project_root_abs),
          sub   \in RuleFileChoices(SubDir) :
         ruleFile = (FsRoot :> outer) @@ (project_root_abs :> root) @@ (SubDir :> sub)
    /\ start_paths_abs \in StartChoices
    /\ patterns_by_dir = EmptyIndex
    /\ gitignores_found = {}
    /\ dirs_to_scan = {}
    /\ pc = "root"
    /\ query = NoQuery

\* collect_gitignore_patterns: the rule file of the project root
CollectRoot ==
    /\ pc = "root"
    /\ LET root_gitignore_path == PathJoin(project_root_abs, GitignoreName)
       IN  IF isfile(root_gitignore_path)
           THEN /\ patterns_by_dir' = (project_root_abs :> load_gitignore_patterns(project_root_abs))
                /\ gitignores_found' = { root_gitignore_path }
           ELSE /\ patterns_by_dir' = EmptyIndex
                /\ gitignores_found' = {}
    /\ pc' = "scan"
    /\ UNCHANGED <<ruleFile, start_paths_abs, dirs_to_scan, query>>

\* collect_gitignore_patterns: the directories to walk
CollectScan ==
    /\ pc = "scan"
    /\ dirs_to_scan' = { p \in start_paths_abs : isdir(p) }
                       \cup { Dirname(p) : p \in { q \in start_paths_abs : ~isdir(q) /\ isfile(q) } }
    /\ pc' = "walk"
    /\ UNCHANGED <<ruleFile, start_paths_abs, patterns_by_dir, gitignores_found, query>>

\* collect_gitignore_patterns: os.walk of one search directory
CollectWalk ==
    /\ pc = "walk"
    /\ \E current_search_dir \in dirs_to_scan :
         LET fresh == { root \in OsWalk(current_search_dir) :
                          /\ isfile(PathJoin(root, GitignoreName))
                          /\ PathJoin(root, GitignoreName) \notin gitignores_found }
         IN  /\ patterns_by_dir' =
                   [d \in DOMAIN patterns_by_dir \cup fresh |->
                       IF d \in fresh THEN load_gitignore_patterns(d) ELSE patterns_by_dir[d]]
             /\ gitignores_found' =
                   gitignores_found \cup { PathJoin(root, GitignoreName) : root \in fresh }
             /\ dirs_to_scan' = dirs_to_scan \ { current_search_dir }
    /\ UNCHANGED <<ruleFile, start_paths_abs, pc, query>>

\* collect_gitignore_patterns returns the index
CollectReturn ==
    /\ pc = "walk"
    /\ dirs_to_scan = {}
    /\ pc' = "built"
    /\ UNCHANGED <<ruleFile, start_paths_abs, patterns_by_dir, gitignores_found,
                   dirs_to_scan, query>>

\* one call of is_file_ignored against the built index (main's filter loop
\* makes one per candidate file)
Query ==
    /\ pc = "built"
    /\ \E filepath_abs \in Candidates :
         query' = [called    |-> TRUE,
                   path      |-> filepath_abs,
                   ignored   |-> is_file_ignored(filepath_abs, patterns_by_dir),
                   consulted |-> Consulted(filepath_abs, patterns_by_dir)]
    /\ pc' = "queried"
    /\ UNCHANGED <<ruleFile, start_paths_abs, patterns_by_dir, gitignores_found,
                   dirs_to_scan>>

\* main's filter loop: the verdict is used and the loop moves to the next file
NextFile ==
    /\ pc = "queried"
    /\ pc' = "built"
    /\ query' = NoQuery
    /\ UNCHANGED <<ruleFile, start_paths_abs, patterns_by_dir, gitignores_found,
                   dirs_to_scan>>

Next == CollectRoot \/ CollectScan \/ CollectWalk \/ CollectReturn \/ Query \/ NextFile

Spec == Init /\ [][Next]_vars

---------------------------------------------------------------------------
(* Vocabulary of the properties *)

\* the path is at or beneath directory d, component-wise
IsUnder(p, d) ==
    LET dc == Components(d)
        c  == Components(p)
    IN  Len(dc) <= Len(c) /\ SubSeq(c, 1, Len(dc)) = dc

\* the lines of directory d's RuleSet that match the path, in file order
MatchingLines(p, d, index) ==
    SelectSeq(index[d], LAMBDA line : Matched(Relpath(p, d), PatternOf(line)))

RECURSIVE MatchingInWalk(_, _, _)
\* the matching lines of a walk over dirs, in walk order
MatchingInWalk(p, dirs, index) ==
    IF dirs = <<>> THEN <<>>
    ELSE MatchingLines(p, Head(dirs), index) \o MatchingInWalk(p, Tail(dirs), index)

\* the elements of a sequence
Range(s) == { s[i] : i \in 1..Len(s) }

\* the path lies inside a '.git' directory of the tree
InsideVcsDir(p) ==
    \E d \in Dirs : Basename(d) = DotGit /\ StartsWith(p, d \o <<Sep>>)

\* number of separators in a string
SepCount(s) == Cardinality({ i \in 1..Len(s) : s[i] = Sep })

\* the index holds exactly the project root's RuleSet, with these patterns
RootOnly(patterns) ==
    /\ DOMAIN patterns_by_dir = { project_root_abs }
    /\ patterns_by_dir[project_root_abs] = patterns

Asked(p) == pc = "queried" /\ query.path = p

---------------------------------------------------------------------------
(* Properties *)

\* C1: for a path under the project root that the denylist does not catch, the
\* verdict is the inverse of the negation flag of the last matching rule of the
\* walk (deepest directory first, file order inside a directory), and false
\* when no rule matches.
C1_LastMatchingRuleWins ==
    (pc = "queried" /\ query.path # project_root_abs /\ ~Denylisted(query.path)) =>
        LET m == MatchingInWalk(query.path, query.consulted, patterns_by_dir)
        IN  query.ignored = (m # <<>> /\ ~is_negation(m[Len(m)]))

\* C2: when the matching rules of a deeper RuleSet all have one polarity and a
\* rule of the opposite polarity in an ancestor's RuleSet matches the same
\* path, the verdict follows the deeper rule.
C2_DeeperRuleWins ==
    (pc = "queried" /\ ~Denylisted(query.path)) =>
        \A i, j \in 1..Len(query.consulted) :
            LET deep    == Range(MatchingLines(query.path, query.consulted[i], patterns_by_dir))
                shallow == Range(MatchingLines(query.path, query.consulted[j], patterns_by_dir))
            IN  \A r \in deep :
                    ( /\ i < j
                      /\ \A r2 \in deep : is_negation(r2) = is_negation(r)
                      /\ \E s \in shallow : is_negation(s) # is_negation(r) )
                    => query.ignored = ~is_negation(r)

\* C3: in a root RuleSet made of an ignore glob followed by the negation of a
\* name, a path the negation matches is not ignored and every other path whose
\* basename matches the glob is ignored; `*.log`, `!keep.log` gives false for
\* keep.log and true for other.log; `build/`, `*.tmp`, `!keep.tmp` gives
\* [true, true, false] for build/out.o, notes.tmp, keep.tmp.
C3_GlobThenNegatedName ==
    pc = "queried" =>
        /\ \A g, n \in GenLines :
             ( /\ RootOnly(<<g, n>>)
               /\ ~is_negation(g) /\ is_negation(n)
               /\ query.path # project_root_abs
               /\ ~Denylisted(query.path) )
             => LET rel == Relpath(query.path, project_root_abs)
                IN  IF Matched(rel, PatternOf(n)) THEN ~query.ignored
                    ELSE FnMatch(Basename(query.path), g) => query.ignored
        /\ RootOnly(<< <<"*", ".", "l", "o", "g">>, <<"!", "k", "e", "e", "p", ".", "l", "o", "g">> >>) =>
             /\ query.path = <<"/", "r", "/", "k", "e", "e", "p", ".", "l", "o", "g">> => ~query.ignored
             /\ query.path = <<"/", "r", "/", "o", "t", "h", "e", "r", ".", "l", "o", "g">> => query.ignored
        /\ RootOnly(<< <<"b", "u", "i", "l", "d", "/">>, <<"*", ".", "t", "m", "p">>, <<"!", "k", "e", "e", "p", ".", "t", "m", "p">> >>) =>
             /\ query.path = <<"/", "r", "/", "b", "u", "i", "l", "d", "/", "o", "u", "t", ".", "o">> => query.ignored
             /\ query.path = <<"/", "r", "/", "n", "o", "t", "e", "s", ".", "t", "m", "p">> => query.ignored
             /\ query.path = <<"/", "r", "/", "k", "e", "e", "p", ".", "t", "m", "p">> => ~query.ignored

C3_Witness ==
    /\ Asked(<<"/", "r", "/", "k", "e", "e", "p", ".", "t", "m", "p">>)
    /\ RootOnly(<< <<"b", "u", "i", "l", "d", "/">>, <<"*", ".", "t", "m", "p">>, <<"!", "k", "e", "e", "p", ".", "t", "m", "p">> >>)
    /\ ~query.ignored

\* C4: a path whose basename is an always-ignored filename, or that lies inside
\* a '.git' directory, is ignored whatever the rule files say, a matching
\* negation rule included.
C4_DenylistAlwaysIgnored ==
    ( /\ pc = "queried"
      /\ \/ Basename(query.path) \in ALWAYS_IGNORE_FILENAMES
         \/ InsideVcsDir(query.path) )
    => query.ignored

C4_Witness ==
    /\ Asked(<<"/", "r", "/", ".", "g", "i", "t", "/", "c", "o", "n", "f", "i", "g">>)
    /\ project_root_abs \in DOMAIN patterns_by_dir
    /\ \E line \in Range(MatchingLines(query.path, project_root_abs, patterns_by_dir)) :
           is_negation(line)
    /\ query.ignored

\* C5: for a candidate equal to the project root, with the root indexed, the
\* RuleSets consulted are exactly the root's own.
C5_RootCandidateConsultsRootOnly ==
    ( /\ Asked(project_root_abs)
      /\ project_root_abs \in DOMAIN patterns_by_dir )
    => query.consulted = << project_root_abs >>

\* C6: an anchored rule without `**` or a character class matches only paths
\* with as many separators as the pattern ('*' and '?' never match '/'):
\* `src/*.py` at the root ignores src/a.py and does not ignore src/sub/a.py.
C6_StarStopsAtSeparator ==
    pc = "queried" =>
        /\ \A d \in Range(query.consulted) :
             \A line \in Range(MatchingLines(query.path, d, patterns_by_dir)) :
                 LET pattern == PatternOf(line)
                 IN  ( /\ Contains(pattern, Sep)
                       /\ ~EndsWithChar(pattern, Sep)
                       /\ ~Contains(pattern, "[")
                       /\ \A k \in 1..(Len(pattern) - 1) :
                              ~(pattern[k] = "*" /\ pattern[k+1] = "*") )
                     => SepCount(Relpath(query.path, d)) = SepCount(pattern)
        /\ RootOnly(<< <<"s", "r", "c", "/", "*", ".", "p", "y">> >>) =>
             /\ query.path = <<"/", "r", "/", "s", "r", "c", "/", "a", ".", "p", "y">> => query.ignored
             /\ query.path = <<"/", "r", "/", "s", "r", "c", "/", "s", "u", "b", "/", "a", ".", "p", "y">> => ~query.ignored

\* C7: a directory-only rule matches exactly when (relative path + '/') begins
\* with the pattern: alone in the walk it decides the verdict, and among other
\* rules it ignores the path unless a negation matches; `foo/` at the root
\* ignores foo/bar.txt and foo itself and does not ignore barfoo/x.
C7_DirectoryOnlyRule ==
    (pc = "queried" /\ ~Denylisted(query.path)) =>
        /\ \A d \in Range(query.consulted) :
             \A k \in 1..Len(patterns_by_dir[d]) :
                 LET line   == patterns_by_dir[d][k]
                     prefix == StartsWith(Relpath(query.path, d) \o <<Sep>>, line)
                     others == { l \in Range(MatchingInWalk(query.path, query.consulted,
                                                            patterns_by_dir)) : is_negation(l) }
                 IN  ( ~is_negation(line) /\ EndsWithChar(line, Sep) ) =>
                        /\ (query.consulted = <<d>> /\ Len(patterns_by_dir[d]) = 1)
                              => query.ignored = prefix
                        /\ (prefix /\ others = {}) => query.ignored
        /\ RootOnly(<< <<"f", "o", "o", "/">> >>) =>
             /\ query.path = <<"/", "r", "/", "f", "o", "o", "/", "b", "a", "r", ".", "t", "x", "t">> => query.ignored
             /\ query.path = <<"/", "r", "/", "f", "o", "o">> => query.ignored
             /\ query.path = <<"/", "r", "/", "b", "a", "r", "f", "o", "o", "/", "x">> => ~query.ignored

C7_Witness ==
    /\ Asked(<<"/", "r", "/", "b", "a", "r", "f", "o", "o", "/", "x">>)
    /\ RootOnly(<< <<"f", "o", "o", "/">> >>)
    /\ ~query.ignored

\* C8: a non-negated rule without '/' in the RuleSet of a consulted directory
\* ignores every path whose basename it matches, at any depth, unless a
\* negation rule matches the path: `*.log` in D ignores D/app.log and
\* D/sub/app.log.
C8_UnanchoredRuleAnyDepth ==
    (pc = "queried" /\ ~Denylisted(query.path)) =>
        /\ ( /\ \E d \in Range(query.consulted) :
                  \E line \in Range(patterns_by_dir[d]) :
                      /\ ~is_negation(line)
                      /\ ~Contains(line, Sep)
                      /\ FnMatch(Basename(query.path), line)
             /\ \A l \in Range(MatchingInWalk(query.path, query.consulted, patterns_by_dir)) :
                    ~is_negation(l) )
           => query.ignored
        /\ ( /\ project_root_abs \in DOMAIN patterns_by_dir
             /\ patterns_by_dir[project_root_abs] = << <<"*", ".", "l", "o", "g">> >>
             /\ \A d \in DOMAIN patterns_by_dir : \A l \in Range(patterns_by_dir[d]) : ~is_negation(l)
             /\ query.path \in { <<"/", "r", "/", "a", "p", "p", ".", "l", "o", "g">>, <<"/", "r", "/", "s", "u", "b", "/", "a", "p", "p", ".", "l", "o", "g">> } )
           => query.ignored
        /\ ( /\ DOMAIN patterns_by_dir = { SubDir }
             /\ patterns_by_dir[SubDir] = << <<"*", ".", "l", "o", "g">> >>
             /\ query.path = <<"/", "r", "/", "s", "u", "b", "/", "a", "p", "p", ".", "l", "o", "g">> )
           => query.ignored

C8_Witness ==
    /\ Asked(<<"/", "r", "/", "s", "u", "b", "/", "a", "p", "p", ".", "l", "o", "g">>)
    /\ RootOnly(<< <<"*", ".", "l", "o", "g">> >>)
    /\ query.ignored

\* C9 as stated: a path matching no rule of any RuleSet of the index is not
\* ignored.
C9_NoMatchNotIgnored ==
    ( /\ pc = "queried"
      /\ \A d \in DOMAIN patterns_by_dir :
             MatchingLines(query.path, d, patterns_by_dir) = <<>> )
    => ~query.ignored

\* C9 amended: a path the fixed denylist does not catch and that matches no
\* rule of any RuleSet of the index is not ignored.
C9_NoMatchNotIgnoredOutsideDenylist ==
    ( /\ pc = "queried"
      /\ ~(Basename(query.path) \in ALWAYS_IGNORE_FILENAMES)
      /\ ~InsideVcsDir(query.path)
      /\ \A d \in DOMAIN patterns_by_dir :
             MatchingLines(query.path, d, patterns_by_dir) = <<>> )
    => ~query.ignored

C9_Witness ==
    /\ Asked(<<"/", "r", "/", "r", "e", "a", "d", "m", "e", ".", "m", "d">>)
    /\ query.consulted = << project_root_abs >>
    /\ patterns_by_dir[project_root_abs] # <<>>
    /\ MatchingLines(query.path, project_root_abs, patterns_by_dir) = <<>>
    /\ ~query.ignored

\* C10: once the index is built, each of its keys is a directory at or under
\* the project root that holds a rule file.
C10_KeysUnderProjectRoot ==
    pc = "built" =>
        \A d \in DOMAIN patterns_by_dir :
            /\ IsUnder(d, project_root_abs)
            /\ isfile(PathJoin(d, GitignoreName))

\* the longest RuleSet any rule file gives, and the deepest walk
LongestOrder ==
    LET lens == { Len(l) : l \in RootContents \cup SubContents \cup OuterContents }
                \cup { Cardinality(RuleDirs) }
    IN  CHOOSE n \in lens : \A k \in lens : k <= n

\* the orderings of n positions, for every n that occurs
Orderings ==
    [n \in 0..LongestOrder |->
        { f \in [1..n -> 1..n] : \A a, b \in 1..n : f[a] = f[b] => a = b }]

\* sequence s taken in order f
Reordered(s, f) == [i \in 1..Len(s) |-> s[f[i]]]

\* each line of directory d's RuleSet with what the walk computes for it:
\* its negation mark and whether it matches the path
Marks(p, d, index) ==
    [k \in 1..Len(index[d]) |->
        [neg     |-> is_negation(index[d][k]),
         matched |-> Matched(Relpath(p, d), PatternOf(index[d][k]))]]

RECURSIVE FoldMarks(_, _)
\* the flags after the rules of one file, taken in the order given
FoldMarks(marks, flags) ==
    IF marks = <<>> THEN flags
    ELSE FoldMarks(Tail(marks),
                   IF Head(marks).matched THEN ApplyMatch(flags, Head(marks).neg)
                   ELSE flags)

RECURSIVE FlagsAfter(_, _, _, _)
\* the flags a walk over dirs can end with, each file's rules taken in any order
FlagsAfter(dirs, p, index, flagSet) ==
    IF dirs = <<>> THEN flagSet
    ELSE LET marks == Marks(p, Head(dirs), index)
         IN  FlagsAfter(Tail(dirs), p, index,
                        { FoldMarks(Reordered(marks, f), flags) :
                            f \in Orderings[Len(marks)], flags \in flagSet })

=============================================================================
